---- MODULE Spec2Model ----
(***************************************************************************)
(* Model of personalized-fashion-recommendations/data_processing.py:       *)
(*   train_test_no_coldstart  - the expanding-window, cold-start-free      *)
(*                              train/test split                           *)
(*   get_labels_no_coldstart  - the balanced negative-sampling labeler     *)
(* A DataFrame is a sequence of records; a row of the transaction table    *)
(* carries its index label idx (RangeIndex 0..n-1), which .iloc slicing    *)
(* and boolean filtering keep.                                             *)
(***************************************************************************)
EXTENDS Integers, Sequences, FiniteSets

\* ------------------------------------------------------------------ bounds
MaxOld == 1
MaxHistory == 9
MaxRecent == 3
MaxFactor == 2
MaxRows == 3
RngMod == 8

Customers == {"c1", "c2"}
Articles == {1, 2}
LabelArticles == {1, 2, 3}
Seeds == {0, 1}
Calls == {1, 2}

VARIABLES
    \* train_test_no_coldstart: arguments, locals, control position
    transactions, factor, n, candidate_start, candidate_end, train, test, spc,
    windows,
    \* get_labels_no_coldstart, one activation per call: arguments, locals,
    \* control position, returned table
    train_transactions, random_state, lpc, pos_df, neg_rows, row_i, labeled_df,
    \* the process-wide generator behind np.random.seed / np.random.choice
    rng

splitVars == <<transactions, factor, n, candidate_start, candidate_end, train,
               test, spc, windows>>
labelVars == <<train_transactions, random_state, lpc, pos_df, neg_rows, row_i,
               labeled_df, rng>>
vars == <<splitVars, labelVars>>

\* ------------------------------------------------------------ sequences
Min(a, b) == IF a < b THEN a ELSE b
Max(a, b) == IF a > b THEN a ELSE b

\* Python slice bound: a negative bound counts from the end, both are clipped.
SliceBound(i, len) == IF i < 0 THEN Max(i + len, 0) ELSE Min(i, len)

\* df.iloc[start:stop]
ILoc(df, start, stop) ==
    LET s == SliceBound(start, Len(df))
        e == SliceBound(stop, Len(df))
    IN  IF s >= e THEN << >> ELSE SubSeq(df, s + 1, e)

\* df.iloc[start:]
ILocFrom(df, start) == ILoc(df, start, Len(df))

\* set(df[col].unique())
ColumnSet(df, col) == {df[k][col] : k \in 1..Len(df)}

\* a table read in ascending time order: row k has index label k-1
SeqsUpTo(S, m) == UNION {[1..k -> S] : k \in 0..m}
WithIndex(rows) ==
    [k \in 1..Len(rows) |->
        [idx |-> k - 1, customer_id |-> rows[k][1], article_id |-> rows[k][2]]]

\* ---------------------------------------------- train_test_no_coldstart
LoopCond_strict(cs, f) == cs > 5 * f
LoopCond_four(cs, f) == cs >= 4 * f
\* while candidate_start >= 5 * factor
LoopCond(cs, f) == cs >= 5 * f

\* transactions.iloc[candidate_start - 5 * factor : candidate_start]
TrainSlice(df, cs, f) == ILoc(df, cs - 5 * f, cs)

\* transactions.iloc[candidate_start:candidate_end]
CandidateTest(df, cs, ce) == ILoc(df, cs, ce)

ValidTest_customersOnly(tr, ct) ==
    SelectSeq(ct, LAMBDA r : r.customer_id \in ColumnSet(tr, "customer_id"))
\* candidate_test[customer_id.isin(valid_customers) & article_id.isin(valid_articles)]
ValidTest(tr, ct) ==
    LET valid_customers == ColumnSet(tr, "customer_id")
        valid_articles == ColumnSet(tr, "article_id")
    IN  SelectSeq(ct, LAMBDA r : /\ r.customer_id \in valid_customers
                                 /\ r.article_id \in valid_articles)

TestRows_all(valid_test, f) == valid_test
TestRows_head(valid_test, f) == ILoc(valid_test, 0, f)
\* valid_test.iloc[-factor:]
TestRows(valid_test, f) == ILocFrom(valid_test, 0 - f)

\* The tables tried: up to MaxOld arbitrary rows, then up to MaxHistory rows of
\* one customer buying one article, then up to MaxRecent arbitrary rows.
History(m) == [k \in 1..m |-> <<"c1", 1>>]
SplitTables ==
    {WithIndex(old \o History(m) \o recent) :
        old \in SeqsUpTo(Customers \X Articles, MaxOld),
        m \in 0..MaxHistory,
        recent \in SeqsUpTo(Customers \X Articles, MaxRecent)}

\* n = len(transactions); candidate_end = n; candidate_start = n - factor
SplitEnter ==
    /\ spc = "call"
    /\ n' = Len(transactions)
    /\ candidate_end' = Len(transactions)
    /\ candidate_start' = Len(transactions) - factor
    /\ spc' = "while"
    /\ UNCHANGED <<transactions, factor, train, test, windows>>
    /\ UNCHANGED labelVars

\* one pass of the loop body that finds enough valid rows and returns
SplitReturn ==
    /\ spc = "while"
    /\ LoopCond(candidate_start, factor)
    /\ LET tr == TrainSlice(transactions, candidate_start, factor)
           ct == CandidateTest(transactions, candidate_start, candidate_end)
           valid_test == ValidTest(tr, ct)
       IN  /\ Len(valid_test) >= factor
           /\ train' = tr
           /\ test' = TestRows(valid_test, factor)
    /\ windows' = Append(windows, candidate_start)
    /\ spc' = "returned"
    /\ UNCHANGED <<transactions, factor, n, candidate_start, candidate_end>>
    /\ UNCHANGED labelVars

\* one pass of the loop body that does not: candidate_start -= factor
SplitExpand ==
    /\ spc = "while"
    /\ LoopCond(candidate_start, factor)
    /\ LET tr == TrainSlice(transactions, candidate_start, factor)
           ct == CandidateTest(transactions, candidate_start, candidate_end)
           valid_test == ValidTest(tr, ct)
       IN  /\ Len(valid_test) < factor
           /\ train' = tr
    /\ candidate_start' = candidate_start - factor
    /\ windows' = Append(windows, candidate_start)
    /\ UNCHANGED <<transactions, factor, n, candidate_end, test, spc>>
    /\ UNCHANGED labelVars

\* the loop condition fails: raise ValueError
SplitRaise ==
    /\ spc = "while"
    /\ ~LoopCond(candidate_start, factor)
    /\ spc' = "raised"
    /\ UNCHANGED <<transactions, factor, n, candidate_start, candidate_end,
                   train, test, windows>>
    /\ UNCHANGED labelVars

InitSplit ==
    /\ transactions \in SplitTables
    /\ factor \in 1..MaxFactor
    /\ n = 0
    /\ candidate_start = 0
    /\ candidate_end = 0
    /\ train = << >>
    /\ test = << >>
    /\ spc = "call"
    /\ windows = << >>
    /\ train_transactions = [c \in Calls |-> << >>]
    /\ random_state = [c \in Calls |-> << >>]
    /\ lpc = [c \in Calls |-> "unused"]
    /\ pos_df = [c \in Calls |-> << >>]
    /\ neg_rows = [c \in Calls |-> << >>]
    /\ row_i = [c \in Calls |-> 0]
    /\ labeled_df = [c \in Calls |-> << >>]
    /\ rng = 0

NextSplit == SplitEnter \/ SplitReturn \/ SplitExpand \/ SplitRaise

SpecSplit == InitSplit /\ [][NextSplit]_vars

\* ---------------------------------------------- get_labels_no_coldstart
\* random_state is << >> for None and <<s>> for the integer seed s.
None == << >>

\* The generator's state stands for the part of its output stream not yet
\* consumed: a draw among m items takes the stream's next base-m digit.
SeedState(seed) == ((seed + 1) * 40503) % 65536

np_random_seed_noop(g, seed) == g
\* np.random.seed(random_state): resets the process-wide generator
np_random_seed(g, seed) == SeedState(seed)

\* np.random.choice(list) on generator state g: the value drawn and the new state
Choice(list, g) ==
    [value |-> list[(g % Len(list)) + 1], g |-> g \div Len(list)]

\* list(S): the elements in the set's iteration order (ascending for small ints)
RECURSIVE ListOf(_)
ListOf(S) ==
    IF S = {} THEN << >>
    ELSE LET m == CHOOSE x \in S : \A y \in S : x <= y
         IN  <<m>> \o ListOf(S \ {m})

\* train_transactions[['customer_id', 'article_id']].copy(); pos_df['label'] = 1
Positives(tt) ==
    [k \in 1..Len(tt) |->
        [customer_id |-> tt[k].customer_id, article_id |-> tt[k].article_id,
         label |-> 1]]

\* pos_df.groupby('customer_id')['article_id'].agg(set).to_dict()[user]
UserToArticles(df, user) ==
    {df[k].article_id : k \in {j \in 1..Len(df) : df[j].customer_id = user}}

\* set(train_transactions['article_id'].unique())
AllArticles(tt) == ColumnSet(tt, "article_id")

CandidateArticles_all(all_articles, mine) == ListOf(all_articles)
\* list(all_articles - user_to_articles[user])
CandidateArticles(all_articles, mine) == ListOf(all_articles \ mine)

HasCandidates_two(candidate_articles) == Len(candidate_articles) > 1
\* if candidate_articles:
HasCandidates(candidate_articles) == Len(candidate_articles) > 0

RemoveAt(s, k) == SubSeq(s, 1, k - 1) \o SubSeq(s, k + 1, Len(s))

\* df.sample(n=k) on generator state g: k rows drawn without replacement, in
\* the order drawn, and the generator state afterwards
RECURSIVE SampleRec(_, _, _, _)
SampleRec(rest, k, g, acc) ==
    IF k = 0 \/ Len(rest) = 0 THEN [rows |-> acc, g |-> g]
    ELSE LET j == (g % Len(rest)) + 1
         IN  SampleRec(RemoveAt(rest, j), k - 1, g \div Len(rest),
                       Append(acc, rest[j]))
Sample(df, k, g) == SampleRec(df, k, g, << >>)

\* df.sample(..., random_state=rs): a private RandomState(rs) when rs is an
\* integer, the process-wide generator when rs is None
SampleWith(df, k, rs, g) ==
    IF rs = None
    THEN Sample(df, k, g)
    ELSE [rows |-> Sample(df, k, SeedState(rs[1])).rows, g |-> g]

Balance_none(pos, neg, rs, g) == [pos |-> pos, neg |-> neg, g |-> g]
\* if num_neg < num_pos: sample positives down; elif num_pos < num_neg: negatives
Balance(pos, neg, rs, g) ==
    IF Len(neg) < Len(pos)
    THEN LET s == SampleWith(pos, Len(neg), rs, g)
         IN  [pos |-> s.rows, neg |-> neg, g |-> s.g]
    ELSE IF Len(pos) < Len(neg)
    THEN LET s == SampleWith(neg, Len(pos), rs, g)
         IN  [pos |-> pos, neg |-> s.rows, g |-> s.g]
    ELSE [pos |-> pos, neg |-> neg, g |-> g]

\* pd.concat([pos_df, neg_df], ignore_index=True).sample(frac=1).reset_index(drop=True)
ConcatShuffle(pos, neg, rs, g) ==
    LET both == pos \o neg
        s == SampleWith(both, Len(both), rs, g)
    IN  [df |-> s.rows, g |-> s.g]

LabelTables ==
    {[k \in 1..Len(rows) |-> [customer_id |-> rows[k][1], article_id |-> rows[k][2]]] :
        rows \in SeqsUpTo(Customers \X LabelArticles, MaxRows)}

\* seed the generator when a seed is given; build pos_df; neg_rows = []
LabelEnter(c) ==
    /\ lpc[c] = "call"
    /\ rng' = IF random_state[c] # None
              THEN np_random_seed(rng, random_state[c][1]) ELSE rng
    /\ pos_df' = [pos_df EXCEPT ![c] = Positives(train_transactions[c])]
    /\ neg_rows' = [neg_rows EXCEPT ![c] = << >>]
    /\ row_i' = [row_i EXCEPT ![c] = 1]
    /\ lpc' = [lpc EXCEPT ![c] = "rows"]
    /\ UNCHANGED <<train_transactions, random_state, labeled_df>>
    /\ UNCHANGED splitVars

\* one pass of the row loop that draws a negative article for the row's user
LabelDraw(c) ==
    /\ lpc[c] = "rows"
    /\ row_i[c] <= Len(pos_df[c])
    /\ LET user == pos_df[c][row_i[c]].customer_id
           candidate_articles ==
               CandidateArticles(AllArticles(train_transactions[c]),
                                 UserToArticles(pos_df[c], user))
           d == Choice(candidate_articles, rng)
       IN  /\ HasCandidates(candidate_articles)
           /\ neg_rows' = [neg_rows EXCEPT ![c] =
                 Append(@, [customer_id |-> user, article_id |-> d.value,
                            label |-> 0])]
           /\ rng' = d.g
    /\ row_i' = [row_i EXCEPT ![c] = @ + 1]
    /\ UNCHANGED <<train_transactions, random_state, lpc, pos_df, labeled_df>>
    /\ UNCHANGED splitVars

\* one pass of the row loop for a user with no candidate: the row is skipped
LabelSkip(c) ==
    /\ lpc[c] = "rows"
    /\ row_i[c] <= Len(pos_df[c])
    /\ LET user == pos_df[c][row_i[c]].customer_id
           candidate_articles ==
               CandidateArticles(AllArticles(train_transactions[c]),
                                 UserToArticles(pos_df[c], user))
       IN  ~HasCandidates(candidate_articles)
    /\ row_i' = [row_i EXCEPT ![c] = @ + 1]
    /\ UNCHANGED <<train_transactions, random_state, lpc, pos_df, neg_rows,
                   labeled_df, rng>>
    /\ UNCHANGED splitVars

\* after the loop: balance, concatenate, shuffle, return
LabelFinish(c) ==
    /\ lpc[c] = "rows"
    /\ row_i[c] > Len(pos_df[c])
    /\ LET b == Balance(pos_df[c], neg_rows[c], random_state[c], rng)
           r == ConcatShuffle(b.pos, b.neg, random_state[c], b.g)
       IN  /\ pos_df' = [pos_df EXCEPT ![c] = b.pos]
           /\ labeled_df' = [labeled_df EXCEPT ![c] = r.df]
           /\ rng' = r.g
    /\ lpc' = [lpc EXCEPT ![c] = "done"]
    /\ UNCHANGED <<train_transactions, random_state, neg_rows, row_i>>
    /\ UNCHANGED splitVars

\* the caller makes its second call once the first has returned
LabelCallAgain ==
    /\ lpc[1] = "done"
    /\ lpc[2] = "later"
    /\ lpc' = [lpc EXCEPT ![2] = "call"]
    /\ UNCHANGED <<train_transactions, random_state, pos_df, neg_rows, row_i,
                   labeled_df, rng>>
    /\ UNCHANGED splitVars

\* Two calls in sequence with the same table and the same random_state; the
\* generator starts in an arbitrary state.
InitLabel ==
    /\ transactions = << >>
    /\ factor = 1
    /\ n = 0
    /\ candidate_start = 0
    /\ candidate_end = 0
    /\ train = << >>
    /\ test = << >>
    /\ spc = "unused"
    /\ windows = << >>
    /\ \E t \in LabelTables : train_transactions = [c \in Calls |-> t]
    /\ \E rs \in {None} \cup {<<s>> : s \in Seeds} :
          random_state = [c \in Calls |-> rs]
    /\ lpc = [c \in Calls |-> IF c = 1 THEN "call" ELSE "later"]
    /\ pos_df = [c \in Calls |-> << >>]
    /\ neg_rows = [c \in Calls |-> << >>]
    /\ row_i = [c \in Calls |-> 0]
    /\ labeled_df = [c \in Calls |-> << >>]
    /\ rng \in 0..(RngMod - 1)

NextLabel ==
    \/ \E c \in Calls : LabelEnter(c)
    \/ \E c \in Calls : LabelDraw(c)
    \/ \E c \in Calls : LabelSkip(c)
    \/ \E c \in Calls : LabelFinish(c)
    \/ LabelCallAgain

SpecLabel == InitLabel /\ [][NextLabel]_vars

\* Two calls running concurrently, each on its own copy of the table and with
\* its own seed; their steps interleave freely.
InitConc ==
    /\ transactions = << >>
    /\ factor = 1
    /\ n = 0
    /\ candidate_start = 0
    /\ candidate_end = 0
    /\ train = << >>
    /\ test = << >>
    /\ spc = "unused"
    /\ windows = << >>
    /\ \E t \in LabelTables : train_transactions = [c \in Calls |-> t]
    /\ random_state \in [Calls -> {<<s>> : s \in Seeds}]
    /\ lpc = [c \in Calls |-> "call"]
    /\ pos_df = [c \in Calls |-> << >>]
    /\ neg_rows = [c \in Calls |-> << >>]
    /\ row_i = [c \in Calls |-> 0]
    /\ labeled_df = [c \in Calls |-> << >>]
    /\ rng \in 0..(RngMod - 1)

NextConc ==
    \/ \E c \in Calls : LabelEnter(c)
    \/ \E c \in Calls : LabelDraw(c)
    \/ \E c \in Calls : LabelSkip(c)
    \/ \E c \in Calls : LabelFinish(c)

SpecConc == InitConc /\ [][NextConc]_vars

\* the call run alone, as a function of its arguments and the generator state
RECURSIVE AloneRows(_, _, _, _, _)
AloneRows(pos, all_articles, i, neg, g) ==
    IF i > Len(pos) THEN [neg |-> neg, g |-> g]
    ELSE LET user == pos[i].customer_id
             candidate_articles ==
                 CandidateArticles(all_articles, UserToArticles(pos, user))
         IN  IF HasCandidates(candidate_articles)
             THEN LET d == Choice(candidate_articles, g)
                  IN  AloneRows(pos, all_articles, i + 1,
                                Append(neg, [customer_id |-> user,
                                             article_id |-> d.value,
                                             label |-> 0]), d.g)
             ELSE AloneRows(pos, all_articles, i + 1, neg, g)
Alone(tt, rs, g0) ==
    LET g1 == IF rs # None THEN np_random_seed(g0, rs[1]) ELSE g0
        rows == AloneRows(Positives(tt), AllArticles(tt), 1, << >>, g1)
        b == Balance(Positives(tt), rows.neg, rs, rows.g)
    IN  ConcatShuffle(b.pos, b.neg, rs, b.g).df

\* ================================================================ claims
\* ------------------------------------------------------------- splitter
Returned == spc = "returned"
Raised == spc = "raised"
RowAt(p) == transactions[p + 1]
PoolPositions == candidate_start..(Len(transactions) - 1)
InTrain(r) ==
    /\ \E j \in 1..Len(train) : train[j].customer_id = r.customer_id
    /\ \E j \in 1..Len(train) : train[j].article_id = r.article_id
TestPositions == {test[k].idx : k \in 1..Len(test)}

\* C1: whenever the split returns, every test row's customer_id occurs in some
\* row of the returned train and its article_id occurs in some row of train.
C1_TestIdsOccurInTrain ==
    Returned => \A k \in 1..Len(test) : InTrain(test[k])
\* a return where the filter had a cold-start row of the pool to drop
C1_Witness ==
    /\ Returned
    /\ Len(test) = factor
    /\ \E p \in PoolPositions : ~InTrain(RowAt(p))

\* C2: whenever the split returns, train is the contiguous block of exactly
\* 5*factor rows at positions [candidate_start - 5*factor, candidate_start),
\* with candidate_start - 5*factor >= 0, and test has exactly factor rows.
C2_TrainBlockAndTestSize ==
    Returned =>
        /\ candidate_start - 5 * factor >= 0
        /\ Len(train) = 5 * factor
        /\ \A k \in 1..Len(train) :
              train[k] = RowAt(candidate_start - 5 * factor + k - 1)
        /\ Len(test) = factor
\* a return from a pool that held more valid rows than factor
C2_Witness ==
    /\ Returned
    /\ Cardinality({p \in PoolPositions : InTrain(RowAt(p))}) > factor

\* C3: whenever the split returns, test is the factor valid rows of the pool
\* [candidate_start, n) with the largest positions, in original order: every
\* test row is a valid row of the pool, no valid pool row left out of test lies
\* after a test row, and every test position is after every train position.
C3_MostRecentValidRows ==
    Returned =>
        /\ Len(test) = factor
        /\ \A k \in 1..Len(test) :
              /\ test[k].idx \in PoolPositions
              /\ RowAt(test[k].idx) = test[k]
              /\ InTrain(test[k])
        /\ \A k \in 1..(Len(test) - 1) : test[k].idx < test[k + 1].idx
        /\ \A p \in PoolPositions :
              (InTrain(RowAt(p)) /\ p \notin TestPositions)
                  => \A k \in 1..Len(test) : p < test[k].idx
        /\ \A k \in 1..Len(test) : \A j \in 1..Len(train) :
              test[k].idx > train[j].idx
\* a return that left an earlier valid pool row out of test
C3_Witness ==
    /\ Returned
    /\ Len(windows) >= 2
    /\ \E p \in PoolPositions : InTrain(RowAt(p)) /\ p \notin TestPositions

\* the windows the search attempts, and the valid rows of one, stated on the table
AttemptedStarts ==
    {cs \in 0..Len(transactions) :
        /\ cs >= 5 * factor
        /\ \E k \in 1..Len(transactions) : cs = Len(transactions) - k * factor}
ValidCount(cs) ==
    Cardinality({p \in cs..(Len(transactions) - 1) :
        /\ \E q \in (cs - 5 * factor)..(cs - 1) :
              RowAt(q).customer_id = RowAt(p).customer_id
        /\ \E q \in (cs - 5 * factor)..(cs - 1) :
              RowAt(q).article_id = RowAt(p).article_id})

\* C4: the split raises exactly when no attempted window candidate_start =
\* n - k*factor >= 5*factor has at least factor valid rows; it raises for
\* every table with n < 6*factor; it never returns fewer than factor rows; and
\* until it has returned or raised it can always take its next step.
C4_RaisesIffNoWindow ==
    /\ Raised => \A cs \in AttemptedStarts : ValidCount(cs) < factor
    /\ Returned => \E cs \in AttemptedStarts : ValidCount(cs) >= factor
    /\ Returned => Len(test) >= factor
    /\ Len(transactions) < 6 * factor => ~Returned
    /\ spc \in {"call", "while"} => ENABLED NextSplit
\* a raise after the search tried two windows of a table long enough to hold one
C4_Witness ==
    /\ Raised
    /\ Len(transactions) >= 6 * factor
    /\ Len(windows) >= 2

\* a table of exactly 6*factor rows whose last factor rows have customers
\* that occur nowhere in the rows before them
ColdStartTail ==
    /\ Len(transactions) = 6 * factor
    /\ \A p \in (5 * factor)..(6 * factor - 1) :
          \A q \in 0..(5 * factor - 1) :
              RowAt(q).customer_id # RowAt(p).customer_id
\* valid rows of the expanded pool [4*factor, n), judged against the rows before it
ExpandedPoolValid ==
    Cardinality({p \in (4 * factor)..(Len(transactions) - 1) :
        /\ \E q \in 0..(4 * factor - 1) :
              RowAt(q).customer_id = RowAt(p).customer_id
        /\ \E q \in 0..(4 * factor - 1) :
              RowAt(q).article_id = RowAt(p).article_id})

\* C9 as stated: on such a table the split evaluates the window at 5*factor,
\* expands once, and then either succeeds on the expanded pool or fails
\* because that pool is still insufficient.
C9_AsStated ==
    (ColdStartTail /\ (Returned \/ Raised)) =>
        /\ Len(windows) >= 1
        /\ windows[1] = 5 * factor
        /\ \/ Returned /\ windows = <<5 * factor, 4 * factor>>
           \/ Raised /\ ExpandedPoolValid < factor
\* C9 amended: on such a table the split evaluates only the window at
\* 5*factor, decrements candidate_start once to 4*factor, and then always
\* raises, without evaluating the expanded pool.
C9_ExpandsOnceThenRaises ==
    ColdStartTail =>
        /\ ~Returned
        /\ windows \in {<< >>, <<5 * factor>>}
        /\ Raised => (windows = <<5 * factor>> /\ candidate_start = 4 * factor)
\* such a table, raised, although the expanded pool holds factor rows whose
\* customer and article occur before it
C9_Witness ==
    /\ ColdStartTail
    /\ Raised
    /\ factor >= 2
    /\ ExpandedPoolValid >= factor

\* -------------------------------------------------------------- labeler
Done(c) == lpc[c] = "done"
CountLabel(df, l) == Cardinality({k \in 1..Len(df) : df[k].label = l})
Occurrences(df, r) == Cardinality({k \in 1..Len(df) : df[k] = r})
InputArticlesOf(tt, u) ==
    {a \in LabelArticles :
        \E k \in 1..Len(tt) : tt[k].customer_id = u /\ tt[k].article_id = a}
InputUniverse(tt) ==
    {a \in LabelArticles : \E k \in 1..Len(tt) : tt[k].article_id = a}

\* C5: the returned table has as many label-1 rows as label-0 rows, for every
\* input table and every outcome of the draws.
C5_Balanced ==
    \A c \in Calls :
        Done(c) => CountLabel(labeled_df[c], 1) = CountLabel(labeled_df[c], 0)
\* a return where positives had to be sampled down to the negatives
C5_Witness ==
    \E c \in Calls :
        /\ Done(c)
        /\ CountLabel(labeled_df[c], 0) >= 1
        /\ CountLabel(labeled_df[c], 0) < Len(train_transactions[c])

\* C6: every label-0 row (u, a) of the returned table has u the customer of
\* some input row, a the article of some input row, and (u, a) no input row.
C6_NegativesUnseen ==
    \A c \in Calls :
        Done(c) =>
            \A k \in 1..Len(labeled_df[c]) :
                LET r == labeled_df[c][k]
                    tt == train_transactions[c]
                IN  r.label = 0 =>
                        /\ \E j \in 1..Len(tt) : tt[j].customer_id = r.customer_id
                        /\ \E j \in 1..Len(tt) : tt[j].article_id = r.article_id
                        /\ \A j \in 1..Len(tt) :
                              ~(/\ tt[j].customer_id = r.customer_id
                                /\ tt[j].article_id = r.article_id)
\* a return holding a negative row for a customer who bought two articles
C6_Witness ==
    \E c \in Calls :
        /\ Done(c)
        /\ \E k \in 1..Len(labeled_df[c]) :
              /\ labeled_df[c][k].label = 0
              /\ Cardinality(InputArticlesOf(train_transactions[c],
                                             labeled_df[c][k].customer_id)) = 2

\* C7: two calls with the same table and the same integer random_state return
\* identical tables, row order included, whatever state the generator was in
\* before each call.
C7_SameSeedSameTable ==
    (/\ Done(1) /\ Done(2)
     /\ random_state[1] # None
     /\ random_state[1] = random_state[2]
     /\ train_transactions[1] = train_transactions[2])
        => labeled_df[1] = labeled_df[2]
\* both seeded calls returned, some row had two candidates to draw from, and
\* the second call started from a generator state other than the seed's
C7_Witness ==
    /\ Done(1) /\ Done(2)
    /\ random_state[1] # None
    /\ Len(labeled_df[2]) >= 4
    /\ \E u \in Customers :
          Cardinality(InputUniverse(train_transactions[1])
                      \ InputArticlesOf(train_transactions[1], u)) = 2
    /\ rng # SeedState(random_state[1][1])

\* C8: two concurrent calls, each with its own copy of the table and its own
\* seed, each return the table they return when run alone.
C8_ConcurrentAsAlone ==
    \A c \in Calls :
        Done(c) => labeled_df[c] = Alone(train_transactions[c], random_state[c], 0)

\* input rows whose customer has not bought every article of the input
RowsWithCandidates(tt) ==
    Cardinality({k \in 1..Len(tt) :
        InputArticlesOf(tt, tt[k].customer_id) # InputUniverse(tt)})

\* C10: there is at most one generated negative per positive row seen so far,
\* the returned table has exactly 2*k rows, k the number of input rows whose
\* customer has not bought every article of the input, and every generated
\* negative row is in the returned table.
C10_NegativesBoundOutput ==
    \A c \in Calls :
        /\ lpc[c] = "rows" => Len(neg_rows[c]) <= row_i[c] - 1
        /\ Len(neg_rows[c]) <= Len(train_transactions[c])
        /\ Done(c) =>
              /\ Len(labeled_df[c]) = 2 * RowsWithCandidates(train_transactions[c])
              /\ CountLabel(labeled_df[c], 0) = Len(neg_rows[c])
              /\ \A k \in 1..Len(neg_rows[c]) :
                    Occurrences(labeled_df[c], neg_rows[c][k])
                        = Occurrences(neg_rows[c], neg_rows[c][k])
\* a return where some rows were skipped and some got a negative
C10_Witness ==
    \E c \in Calls :
        /\ Done(c)
        /\ RowsWithCandidates(train_transactions[c]) >= 1
        /\ RowsWithCandidates(train_transactions[c]) < Len(train_transactions[c])
        /\ Len(neg_rows[c]) >= 1

====
